---- MODULE Spec2Model ----
(***************************************************************************)
(* Semantic fact memory of book_show: the embedding cache, the fact store  *)
(* bound to it, the similarity search with keyset pagination and the       *)
(* reconciliation (upsert / add-if-new) built on them.                     *)
(*                                                                         *)
(* Every await of the TypeScript code is a step of a caller process: the   *)
(* store and the embedding service are reached by one round trip per step, *)
(* and any round trip may fail.                                            *)
(***************************************************************************)
EXTENDS Integers, Sequences, FiniteSets, TLC

(***************************************************************************)
(* Bounds of the model.                                                    *)
(***************************************************************************)
MaxFactId == 2
MaxCacheId == 4
MaxLen == 2
NumChapters == 2
MaxLimit == 2

Chapters == 1..NumChapters

(***************************************************************************)
(* Texts are sequences of characters, so that String.prototype.trim is a   *)
(* computation and not the identity.                                       *)
(***************************************************************************)
TEmpty == <<>>
TA == <<"a">>
TPadA == <<" ", "a">>
Texts == {TEmpty, TA, TPadA}

RECURSIVE TrimStart(_)
TrimStart(s) == IF s # <<>> /\ Head(s) = " " THEN TrimStart(Tail(s)) ELSE s

RECURSIVE TrimEnd(_)
TrimEnd(s) ==
    IF s # <<>> /\ s[Len(s)] = " " THEN TrimEnd(SubSeq(s, 1, Len(s) - 1)) ELSE s

\* String.prototype.trim as memory.ts uses it (addFact, updateFact)
Trim(s) == TrimEnd(TrimStart(s))

(***************************************************************************)
(* Vectors are the eight unit vectors of the plane at multiples of 45      *)
(* degrees, named 0..7; the cosine of two of them is quantised to          *)
(* hundredths (100 = equal direction).                                     *)
(***************************************************************************)
CosTab == <<100, 71, 0, -71, -100, -71, 0, 71>>
Vectors == 0..(Len(CosTab) - 1)

\* COSINE similarity of getSimilarityExpression, in hundredths
Cosine(v, w) == CosTab[((v - w) % Len(CosTab)) + 1]

\* the embedding service: a fixed vector per text
EmbedVec(t) ==
    CASE t = TA -> 0
      [] t = TPadA -> 1
      [] OTHER -> 2

(***************************************************************************)
(* The store: table fact and table ai_cached_embedding.                    *)
(*   fact row:   [id, text, ch, emb]   (emb = embedding_id)                *)
(*   cache row:  [id, text, vec]                                           *)
(***************************************************************************)
VARIABLES facts, cache, lastFactId

NewCacheId(C) == Cardinality(C) + 1

\* createCachedEmbedding as an upsert on the text: the rows that carry the
\* text are replaced by the new row
createCachedEmbedding_Upsert(C, text, vec) ==
    {c \in C : c.text # text}
        \cup {[id |-> NewCacheId(C), text |-> text, vec |-> vec]}

\* createCachedEmbedding as an insert-if-absent
createCachedEmbedding_IfAbsent(C, text, vec) ==
    IF \E c \in C : c.text = text
        THEN C
        ELSE C \cup {[id |-> NewCacheId(C), text |-> text, vec |-> vec]}

\* createCachedEmbedding: INSERT of one row with a fresh id, no look at the
\* rows already there
createCachedEmbedding(C, text, vec) ==
    C \cup {[id |-> NewCacheId(C), text |-> text, vec |-> vec]}

\* getCachedEmbedding / getManyCachedEmbeddings: the rows whose text is
\* exactly the text asked for
CachedRows(C, text) == {c \in C : c.text = text}

Range(s) == {s[i] : i \in DOMAIN s}

\* getFacts that never filters by text
getFacts_WholeChapter(F, chapterId, texts) == {f \in F : f.ch = chapterId}

\* getFacts(chapterId, texts): WHERE chapter_id = chapterId, and, when texts
\* is a non-empty list, AND text IN texts
getFacts(F, chapterId, texts) ==
    {f \in F : f.ch = chapterId /\ (Len(texts) > 0 => f.text \in Range(texts))}

\* addFactsQuery: createMany, one fact row per embedding, ids in order
addFactsQuery(F, last, chapterId, embeddings) ==
    F \cup {[id |-> last + i, text |-> embeddings[i].text, ch |-> chapterId,
             emb |-> embeddings[i].cachedEmbeddingId] : i \in DOMAIN embeddings}

\* addFactQuery writing the id of the fact where the id of the cached
\* embedding belongs
addFactQuery_OwnId(F, last, chapterId, embedding) ==
    F \cup {[id |-> last + 1, text |-> embedding.text, ch |-> chapterId,
             emb |-> last + 1]}

\* addFactQuery: create of one fact row
addFactQuery(F, last, chapterId, embedding) ==
    F \cup {[id |-> last + 1, text |-> embedding.text, ch |-> chapterId,
             emb |-> embedding.cachedEmbeddingId]}

\* prisma update / delete need a row matching the where clause
FactFound(F, factId, chapterId) == \E f \in F : f.id = factId /\ f.ch = chapterId

\* updateFactQuery as a delete of the row and a create of its successor,
\* which gets a fresh id
updateFactQuery_Reinsert(F, factId, chapterId, text, embedding) ==
    {f \in F : ~(f.id = factId /\ f.ch = chapterId)}
        \cup {[id |-> lastFactId + 1, text |-> text, ch |-> chapterId,
                emb |-> embedding.cachedEmbeddingId]}

\* updateFactQuery that writes the text and leaves embedding_id as it was
updateFactQuery_TextOnly(F, factId, chapterId, text, embedding) ==
    {IF f.id = factId /\ f.ch = chapterId
        THEN [f EXCEPT !.text = text]
        ELSE f : f \in F}

\* updateFactQuery: text and embedding_id of the row (id, chapter_id) replaced
updateFactQuery(F, factId, chapterId, text, embedding) ==
    {IF f.id = factId /\ f.ch = chapterId
        THEN [f EXCEPT !.text = text, !.emb = embedding.cachedEmbeddingId]
        ELSE f : f \in F}

\* deleteFactQuery: the row (id, chapter_id) removed
deleteFactQuery(F, factId, chapterId) ==
    {f \in F : ~(f.id = factId /\ f.ch = chapterId)}

\* deleteAllFactsQuery as a deleteMany without its where clause
deleteAllFactsQuery_NoWhere(F, chapterId) == {}

\* deleteAllFactsQuery: deleteMany WHERE chapter_id = chapterId
deleteAllFactsQuery(F, chapterId) == {f \in F : f.ch # chapterId}

(***************************************************************************)
(* searchFactsQuery: one SELECT and the paging of its rows.                *)
(***************************************************************************)
NoCursor == [lastId |-> 0, lastSimilarity |-> 999]

\* fact JOIN ai_cached_embedding ON f.embedding_id = ace.id, with the
\* similarity column of the SELECT list
JoinedRows(F, C, qvec) ==
    {[id |-> f.id, text |-> f.text, similarity |-> Cosine(qvec, c.vec),
      chapter_id |-> f.ch] : <<f, c>> \in {fc \in F \X C : fc[1].emb = fc[2].id}}

\* the WHERE clause with > in place of >=
ThresholdCondition_Strict(row, minSimilarity) == row.similarity > minSimilarity

\* WHERE similarity >= minSimilarity
ThresholdCondition(row, minSimilarity) == row.similarity >= minSimilarity

\* the cursorCondition without its clause for rows of equal similarity
CursorCondition_NoTies(row, cursor) ==
    cursor # NoCursor => row.similarity < cursor.lastSimilarity

\* the cursorCondition with <= in place of < on the id
CursorCondition_Inclusive(row, cursor) ==
    cursor # NoCursor =>
        (row.similarity < cursor.lastSimilarity
         \/ (row.similarity = cursor.lastSimilarity /\ row.id <= cursor.lastId))

\* the cursorCondition appended to the WHERE clause when a cursor is given
CursorCondition(row, cursor) ==
    cursor # NoCursor =>
        (row.similarity < cursor.lastSimilarity
         \/ (row.similarity = cursor.lastSimilarity /\ row.id < cursor.lastId))

Matching(F, C, qvec, minSimilarity, cursor) ==
    {r \in JoinedRows(F, C, qvec) :
        ThresholdCondition(r, minSimilarity) /\ CursorCondition(r, cursor)}

\* ORDER BY similarity DESC alone
OrderBefore_NoTieBreak(a, b) == a.similarity > b.similarity

\* ORDER BY similarity DESC, f.id DESC: row a sorts strictly before row b
OrderBefore(a, b) ==
    a.similarity > b.similarity \/ (a.similarity = b.similarity /\ a.id > b.id)

Min2(a, b) == IF a < b THEN a ELSE b

\* ORDER BY ... LIMIT n: every answer the database may give, that is every
\* sequence of n rows (all rows when fewer match) that no ordering key
\* contradicts and that leaves out no row sorting before a row it holds
OrderedLimit(M, n) ==
    LET k == Min2(n, Cardinality(M))
    IN {s \in [1..k -> M] :
          /\ \A i, j \in 1..k : i < j => (s[i] # s[j] /\ ~OrderBefore(s[j], s[i]))
          /\ \A m \in M \ Range(s) : \A i \in 1..k : ~OrderBefore(m, s[i])}

\* the rows the SELECT of searchFactsQuery may return
SelectRows(F, C, qvec, minSimilarity, limit, cursor) ==
    OrderedLimit(Matching(F, C, qvec, minSimilarity, cursor), limit + 1)

\* the paging with hasMore = results.length >= limit
PageOf_NoLookahead(results, limit) ==
    LET hasMore == Len(results) >= limit
        pageFacts == IF hasMore THEN SubSeq(results, 1, limit) ELSE results
    IN [facts |-> pageFacts,
        nextCursor |->
            IF hasMore /\ Len(pageFacts) > 0
                THEN [lastId |-> pageFacts[Len(pageFacts)].id,
                      lastSimilarity |-> pageFacts[Len(pageFacts)].similarity]
                ELSE NoCursor]

\* the paging after the SELECT: hasMore, the slice and the next cursor
PageOf(results, limit) ==
    LET hasMore == Len(results) > limit
        pageFacts == IF hasMore THEN SubSeq(results, 1, limit) ELSE results
    IN [facts |-> pageFacts,
        nextCursor |->
            IF hasMore /\ Len(pageFacts) > 0
                THEN [lastId |-> pageFacts[Len(pageFacts)].id,
                      lastSimilarity |-> pageFacts[Len(pageFacts)].similarity]
                ELSE NoCursor]

EmptyPage == [facts |-> <<>>, nextCursor |-> NoCursor]

(***************************************************************************)
(* Callers.  pc[p] is the await a call of caller p is suspended at; loc[p] *)
(* holds the arguments and locals of the call.  The fields failed,         *)
(* inserted, deleted, updated (the ids of the facts the call has updated), *)
(* previous and option (the similarity option as the caller passed it)     *)
(* are history kept for the properties.                                    *)
(***************************************************************************)
VARIABLES pc, loc, touched, trav, probe

\* the tables and the activations of the book processing (defined below);
\* the handlers of the fact memory leave them alone
VARIABLES books, chapterRows, diagnostics, run, job, llm

flowVars == <<books, chapterRows, diagnostics, run, job, llm>>

\* an optional argument is <<>> when it is left out and <<v>> when v is given
Undefined == <<>>
Some(v) == <<v>>

\* an optional parameter with a default value: { similarity = d } = {}
Default(v, d) == IF v = Undefined THEN d ELSE v[1]

SearchFactsSimilarity == 20
SearchFactsLimit == 10
FindSimilarSimilarity == 90
FindSimilarLimit == 5
SearchByChapterSimilarity == 20
SearchByChapterLimit == 10
FactExistsSimilarity == 95
AddFactIfNewSimilarity == 90

NoCall ==
    [op |-> "none", chapterId |-> 0, texts |-> <<>>, factId |-> 0,
     withDelete |-> FALSE, similarity |-> 0, limit |-> 0, cursor |-> NoCursor,
     want |-> <<>>, got |-> {}, cont |-> "none", updQ |-> {}, delQ |-> {},
     result |-> "none", value |-> <<>>, page |-> EmptyPage, isNull |-> FALSE,
     failed |-> FALSE, inserted |-> 0, deleted |-> 0,
     previous |-> "none", option |-> Undefined, updated |-> {}]

Free(p) == pc[p] = "idle"

\* the caller makes the call that has just returned once more, with the
\* same arguments
Again(p, op, chapterId, texts, withDelete) ==
    /\ pc[p] = "done"
    /\ loc[p].op = op
    /\ loc[p].chapterId = chapterId
    /\ loc[p].texts = texts
    /\ loc[p].withDelete = withDelete

\* previous: how the same call ended when it is made once more
NewCall(p, op) ==
    [NoCall EXCEPT !.op = op,
                   !.previous = IF pc[p] = "done" THEN loc[p].result ELSE "none"]

Goto(p, label, l) ==
    /\ pc' = [pc EXCEPT ![p] = label]
    /\ loc' = [loc EXCEPT ![p] = l]

\* a call returns: its locals are dropped, its result and history stay
Returned(l, result) ==
    [l EXCEPT !.result = result, !.want = <<>>, !.got = {}, !.cont = "none",
              !.updQ = {}, !.delQ = {}]

Return(p, l, result) == Goto(p, "done", Returned(l, result))

\* the caller has taken the result of its call
Forget(p) ==
    /\ pc[p] = "done"
    /\ Goto(p, "idle", NoCall)
    /\ UNCHANGED <<flowVars, facts, cache, lastFactId, touched, trav, probe>>

\* facts written while a paged traversal is under way
Touch(ids) ==
    touched' = IF trav.on /\ ~trav.fin THEN touched \cup ids ELSE touched

(***************************************************************************)
(* getEmbeddings / getManyEmbeddings: look the texts up in the cache, then *)
(* compute and insert one row per text that was not found.                 *)
(***************************************************************************)
BeginEmbeddings(l, texts, cont) ==
    [l EXCEPT !.want = texts, !.got = {}, !.cont = cont]

TextEmbedding(row) ==
    [text |-> row.text, cachedEmbeddingId |-> row.id, embedding |-> row.vec]

Resolved(l, t) == \E e \in l.got : e.text = t
Resolve(l, t) == CHOOSE e \in l.got : e.text = t

\* the first text of the list that has no embedding yet
RECURSIVE FirstMiss(_, _)
FirstMiss(l, texts) ==
    IF Resolved(l, Head(texts)) THEN FirstMiss(l, Tail(texts)) ELSE Head(texts)

AllResolved(l) == \A t \in Range(l.want) : Resolved(l, t)

\* one cache lookup for all the texts wanted; of several rows with the
\* same text the store returns any one
LookupCached(p) ==
    /\ pc[p] = "lookupCached"
    /\ LET l == loc[p]
           hit == {t \in Range(l.want) : CachedRows(cache, t) # {}}
       IN \E pick \in [hit -> cache] :
            /\ \A t \in hit : pick[t] \in CachedRows(cache, t)
            /\ LET l2 == [l EXCEPT !.got = {TextEmbedding(pick[t]) : t \in hit}]
               IN Goto(p, IF AllResolved(l2) THEN l.cont ELSE "createCached", l2)
    /\ UNCHANGED <<flowVars, facts, cache, lastFactId, touched, trav, probe>>

\* the embedding of one missing text is computed and inserted
CreateCached(p) ==
    /\ pc[p] = "createCached"
    /\ NewCacheId(cache) <= MaxCacheId
    /\ LET l == loc[p]
           t == FirstMiss(l, l.want)
           row == [id |-> NewCacheId(cache), text |-> t, vec |-> EmbedVec(t)]
           l2 == [l EXCEPT !.got = l.got \cup {TextEmbedding(row)}]
       IN /\ cache' = createCachedEmbedding(cache, t, EmbedVec(t))
          /\ Goto(p, IF AllResolved(l2) THEN l.cont ELSE "createCached", l2)
    /\ UNCHANGED <<flowVars, facts, lastFactId, touched, trav, probe>>

(***************************************************************************)
(* memory.ts: the handlers of getChapterMemory, one step per await.        *)
(***************************************************************************)
RECURSIVE SetToSeq(_)
\* the ids of a set of rows, as a list in ascending order
SetToSeq(S) ==
    IF S = {} THEN <<>>
    ELSE LET m == CHOOSE x \in S : \A y \in S : x <= y
         IN <<m>> \o SetToSeq(S \ {m})

\* a list of ids in ascending order with one more id in it: the lists of
\* rows a call returns are kept in this order, whatever order the store
\* returned the rows in
RECURSIVE Insert(_, _)
Insert(s, id) ==
    IF s = <<>> \/ id <= Head(s) THEN <<id>> \o s
    ELSE <<Head(s)>> \o Insert(Tail(s), id)

Ids(F) == {f.id : f \in F}

\* upsertFacts after addFacts and after each updateFact: the next fact to
\* update (the order of the fetched rows is the store's), then the deletes
UpsertContinue(l) ==
    IF l.updQ # {}
        THEN {[pc |-> "lookupCached",
               loc |-> BeginEmbeddings(
                          [l EXCEPT !.updQ = l.updQ \ {f}, !.factId = f.id],
                          <<Trim(f.text)>>, "updateFactQuery")] : f \in l.updQ}
    ELSE IF l.withDelete /\ l.delQ # {}
        THEN {[pc |-> "deleteFactQuery", loc |-> l]}
    ELSE {[pc |-> "done", loc |-> Returned(l, "ok")]}

\* addFacts(chapterId, facts): an empty list returns at once
addFacts(p, chapterId, texts) ==
    /\ Free(p)
    /\ LET l == [NewCall(p, "addFacts") EXCEPT !.chapterId = chapterId,
                                               !.texts = texts]
       IN IF Len(texts) = 0
            THEN Return(p, l, "ok")
            ELSE Goto(p, "lookupCached",
                      BeginEmbeddings(l, texts, "addFactsQuery"))
    /\ UNCHANGED <<flowVars, facts, cache, lastFactId, touched, trav, probe>>

\* await addFactsQuery({ chapterId, embeddings })
AddFactsQueryStep(p) ==
    /\ pc[p] = "addFactsQuery"
    /\ LET l == loc[p]
           n == Len(l.want)
           embeddings == [i \in 1..n |-> Resolve(l, l.want[i])]
       IN /\ lastFactId + n <= MaxFactId
          /\ facts' = addFactsQuery(facts, lastFactId, l.chapterId, embeddings)
          /\ lastFactId' = lastFactId + n
          /\ Touch((lastFactId + 1)..(lastFactId + n))
          /\ Goto(p, "getFacts", [l EXCEPT !.inserted = l.inserted + n])
    /\ UNCHANGED <<flowVars, cache, trav, probe>>

\* return await getFacts(chapterId, facts): the result of addFacts
GetFactsStep(p) ==
    /\ pc[p] = "getFacts"
    /\ LET l == loc[p]
           l2 == [l EXCEPT !.value =
                     SetToSeq(Ids(getFacts(facts, l.chapterId, l.want)))]
       IN IF l.op = "upsertFacts"
            THEN \E nxt \in UpsertContinue(l2) : Goto(p, nxt.pc, nxt.loc)
            ELSE Return(p, l2, "ok")
    /\ UNCHANGED <<flowVars, facts, cache, lastFactId, touched, trav, probe>>

\* addFact(chapterId, factText): the embedding of the trimmed text
addFact(p, chapterId, factText) ==
    /\ Free(p)
    /\ LET l == [NewCall(p, "addFact") EXCEPT !.chapterId = chapterId,
                                              !.texts = <<factText>>]
       IN Goto(p, "lookupCached",
               BeginEmbeddings(l, <<Trim(factText)>>, "addFactQuery"))
    /\ UNCHANGED <<flowVars, facts, cache, lastFactId, touched, trav, probe>>

\* return await addFactQuery({ chapterId, embedding })
AddFactQueryStep(p) ==
    /\ pc[p] = "addFactQuery"
    /\ lastFactId + 1 <= MaxFactId
    /\ LET l == loc[p]
       IN /\ facts' = addFactQuery(facts, lastFactId, l.chapterId,
                                   Resolve(l, l.want[1]))
          /\ lastFactId' = lastFactId + 1
          /\ Touch({lastFactId + 1})
          /\ Return(p, [l EXCEPT !.inserted = l.inserted + 1,
                                 !.value = <<lastFactId + 1>>], "ok")
    /\ UNCHANGED <<flowVars, cache, trav, probe>>

\* updateFact(chapterId, factId, newText): the embedding of the trimmed text
updateFact(p, chapterId, factId, newText) ==
    /\ Free(p)
    /\ LET l == [NewCall(p, "updateFact") EXCEPT !.chapterId = chapterId,
                     !.factId = factId, !.texts = <<newText>>]
       IN Goto(p, "lookupCached",
               BeginEmbeddings(l, <<Trim(newText)>>, "updateFactQuery"))
    /\ UNCHANGED <<flowVars, facts, cache, lastFactId, touched, trav, probe>>

\* return await updateFactQuery(...): prisma rejects when no row matches
UpdateFactQueryStep(p) ==
    /\ pc[p] = "updateFactQuery"
    /\ LET l == loc[p]
       IN IF FactFound(facts, l.factId, l.chapterId)
            THEN /\ facts' = updateFactQuery(facts, l.factId, l.chapterId,
                                             l.want[1], Resolve(l, l.want[1]))
                 /\ Touch({l.factId})
                 /\ LET l2 == [l EXCEPT !.value = Insert(l.value, l.factId),
                                        !.updated = l.updated \cup {l.factId}]
                    IN IF l.op = "upsertFacts"
                         THEN \E nxt \in UpsertContinue(l2) :
                                 Goto(p, nxt.pc, nxt.loc)
                         ELSE Return(p, l2, "ok")
            ELSE /\ Return(p, [l EXCEPT !.failed = TRUE], "error")
                 /\ UNCHANGED <<flowVars, facts, touched>>
    /\ UNCHANGED <<flowVars, cache, lastFactId, trav, probe>>

\* deleteFact(chapterId, factId)
deleteFact(p, chapterId, factId) ==
    /\ Free(p)
    /\ Goto(p, "deleteFactQuery",
            [NewCall(p, "deleteFact") EXCEPT !.chapterId = chapterId,
                                             !.delQ = {factId}])
    /\ UNCHANGED <<flowVars, facts, cache, lastFactId, touched, trav, probe>>

\* await deleteFactQuery({ factId, chapterId }), of deleteFact and of the
\* loop of deleteFacts: prisma rejects when no row matches
DeleteFactQueryStep(p) ==
    /\ pc[p] = "deleteFactQuery"
    /\ LET l == loc[p]
       IN \E factId \in l.delQ :
            IF FactFound(facts, factId, l.chapterId)
              THEN /\ facts' = deleteFactQuery(facts, factId, l.chapterId)
                   /\ Touch({factId})
                   /\ LET l2 == [l EXCEPT !.delQ = l.delQ \ {factId},
                                          !.deleted = l.deleted + 1]
                      IN IF l2.delQ = {}
                           THEN Return(p, l2, "ok")
                           ELSE Goto(p, "deleteFactQuery", l2)
              ELSE /\ Return(p, [l EXCEPT !.failed = TRUE], "error")
                   /\ UNCHANGED <<flowVars, facts, touched>>
    /\ UNCHANGED <<flowVars, cache, lastFactId, trav, probe>>

\* deleteAllFacts(chapterId)
deleteAllFacts(p, chapterId) ==
    /\ Free(p)
    /\ Goto(p, "deleteAllFactsQuery",
            [NewCall(p, "deleteAllFacts") EXCEPT !.chapterId = chapterId])
    /\ UNCHANGED <<flowVars, facts, cache, lastFactId, touched, trav, probe>>

\* await deleteAllFactsQuery({ chapterId })
DeleteAllFactsQueryStep(p) ==
    /\ pc[p] = "deleteAllFactsQuery"
    /\ LET l == loc[p]
           gone == getFacts(facts, l.chapterId, <<>>)
       IN /\ facts' = deleteAllFactsQuery(facts, l.chapterId)
          /\ Touch(Ids(gone))
          /\ Return(p, [l EXCEPT !.deleted = Cardinality(gone)], "ok")
    /\ UNCHANGED <<flowVars, cache, lastFactId, trav, probe>>

\* upsertFacts(chapterId, facts, withDelete): an empty list returns at once
upsertFacts(p, chapterId, texts, withDelete) ==
    /\ Free(p) \/ Again(p, "upsertFacts", chapterId, texts, withDelete)
    /\ LET l == [NewCall(p, "upsertFacts") EXCEPT !.chapterId = chapterId,
                     !.texts = texts, !.withDelete = withDelete]
       IN IF Len(texts) = 0
            THEN Return(p, l, "ok")
            ELSE Goto(p, "upsertGetFacts", l)
    /\ UNCHANGED <<flowVars, facts, cache, lastFactId, touched, trav, probe>>

\* const fetchedFacts = await getFacts(chapterId, facts), the three filters
\* after it and the call of addFacts(chapterId, newFacts)
UpsertGetFactsStep(p) ==
    /\ pc[p] = "upsertGetFacts"
    /\ LET l == loc[p]
           fetchedFacts == getFacts(facts, l.chapterId, l.texts)
           IsFetched(t) == \E f \in fetchedFacts : f.text = t
           NotFetched(t) == ~IsFetched(t)
           newFacts == SelectSeq(l.texts, NotFetched)
           updatedFacts == SelectSeq(l.texts, IsFetched)
           deletedFacts == {f \in fetchedFacts : f.text \notin Range(l.texts)}
           l2 == [l EXCEPT
                    !.updQ = {f \in fetchedFacts : f.text \in Range(updatedFacts)},
                    !.delQ = Ids(deletedFacts)]
       IN IF Len(newFacts) = 0
            THEN \E nxt \in UpsertContinue(l2) : Goto(p, nxt.pc, nxt.loc)
            ELSE Goto(p, "lookupCached",
                      BeginEmbeddings(l2, newFacts, "addFactsQuery"))
    /\ UNCHANGED <<flowVars, facts, cache, lastFactId, touched, trav, probe>>

\* a text is falsy when it is missing or empty: if (!searchTopic)
Falsy(text) == text = Undefined \/ text[1] = TEmpty

\* searchFacts({ searchTopic, similarity = 0.2, limit = 10, cursor })
searchFacts(p, searchTopic, similarity, limit, cursor) ==
    /\ Free(p)
    /\ LET l == [NewCall(p, "searchFacts") EXCEPT
                    !.texts = searchTopic,
                    !.similarity = Default(similarity, SearchFactsSimilarity),
                    !.limit = Default(limit, SearchFactsLimit),
                    !.cursor = cursor]
       IN IF Falsy(searchTopic)
            THEN Return(p, l, "ok")
            ELSE Goto(p, "lookupCached",
                      BeginEmbeddings(l, searchTopic, "searchFactsQuery"))
    /\ UNCHANGED <<flowVars, facts, cache, lastFactId, touched, trav, probe>>

\* searchFactsByChapter({ searchTopic, similarity = 0.2, limit = 10,
\* cursor }): this.searchFacts with the same four values.  chapterId is the
\* chapter the caller means; the parameters have no place for it.
searchFactsByChapter(p, chapterId, searchTopic, similarity, limit, cursor) ==
    /\ Free(p)
    /\ LET similarity2 == Some(Default(similarity, SearchByChapterSimilarity))
           limit2 == Some(Default(limit, SearchByChapterLimit))
           l == [NewCall(p, "searchFactsByChapter") EXCEPT
                    !.chapterId = chapterId,
                    !.texts = searchTopic,
                    !.similarity = Default(similarity2, SearchFactsSimilarity),
                    !.limit = Default(limit2, SearchFactsLimit),
                    !.cursor = cursor]
       IN IF Falsy(searchTopic)
            THEN Return(p, l, "ok")
            ELSE Goto(p, "lookupCached",
                      BeginEmbeddings(l, searchTopic, "searchFactsQuery"))
    /\ UNCHANGED <<flowVars, facts, cache, lastFactId, touched, trav, probe>>

\* findSimilarFacts(factText, { similarity = 0.9, limit = 5 })
findSimilarFactsArgs(o) ==
    [similarity |-> Default(o.similarity, FindSimilarSimilarity),
     limit |-> Default(o.limit, FindSimilarLimit)]

\* factExists(factText, { similarity = 0.95 }): findSimilarFacts with
\* { similarity, limit: 1 }
factExistsArgs(similarity) ==
    findSimilarFactsArgs(
        [similarity |-> Some(Default(similarity, FactExistsSimilarity)),
         limit |-> Some(1)])

\* addFact as addFactIfNew calls it when factExists answers false
ThenAddFact(l) ==
    BeginEmbeddings(l, <<Trim(l.texts[1])>>, "addFactQuery")

\* addFactIfNew(chapterId, factText, { similarity = 0.9 }): factExists,
\* that is searchFacts with the caller's threshold and limit 1
addFactIfNew(p, chapterId, factText, similarity) ==
    /\ Free(p)
    /\ LET args == factExistsArgs(
                       Some(Default(similarity, AddFactIfNewSimilarity)))
           l == [NewCall(p, "addFactIfNew") EXCEPT
                    !.chapterId = chapterId, !.texts = <<factText>>,
                    !.option = similarity,
                    !.similarity =
                        Default(Some(args.similarity), SearchFactsSimilarity),
                    !.limit = Default(Some(args.limit), SearchFactsLimit)]
       IN IF Falsy(Some(factText))
            THEN Goto(p, "lookupCached", ThenAddFact(l))
            ELSE Goto(p, "lookupCached",
                      BeginEmbeddings(l, <<factText>>, "searchFactsQuery"))
    /\ UNCHANGED <<flowVars, facts, cache, lastFactId, touched, trav, probe>>

\* return searchFactsQuery({ searchEmbedding, minSimilarity, limit, cursor })
SearchFactsQueryStep(p) ==
    /\ pc[p] = "searchFactsQuery"
    /\ LET l == loc[p]
           searchEmbedding == Resolve(l, l.want[1])
       IN \E results \in SelectRows(facts, cache, searchEmbedding.embedding,
                                     l.similarity, l.limit, l.cursor) :
            LET l2 == [l EXCEPT !.page = PageOf(results, l.limit)]
            IN IF l.op = "addFactIfNew"
                 THEN IF Len(l2.page.facts) > 0
                        THEN Return(p, [l2 EXCEPT !.isNull = TRUE], "ok")
                        ELSE Goto(p, "lookupCached", ThenAddFact(l2))
                 ELSE Return(p, l2, "ok")
    /\ UNCHANGED <<flowVars, facts, cache, lastFactId, touched, trav, probe>>

\* the try block of searchFacts awaits getEmbeddings, and returns the
\* promise of searchFactsQuery without awaiting it: only a failure of the
\* former reaches its catch block
CaughtBySearchFacts(l, label) ==
    label \in {"lookupCached", "createCached"} /\ l.cont = "searchFactsQuery"

Awaits ==
    {"lookupCached", "createCached", "addFactsQuery", "getFacts",
     "addFactQuery", "updateFactQuery", "deleteFactQuery",
     "deleteAllFactsQuery", "upsertGetFacts", "searchFactsQuery"}

\* catch blocks that log the failure and return normally
Fail_Swallows(p) ==
    /\ pc[p] \in Awaits
    /\ LET l == [loc[p] EXCEPT !.failed = TRUE]
       IN IF CaughtBySearchFacts(l, pc[p]) /\ l.op = "addFactIfNew"
            THEN Goto(p, "lookupCached",
                      ThenAddFact([l EXCEPT !.page = EmptyPage]))
            ELSE Return(p, [l EXCEPT !.page = EmptyPage], "ok")
    /\ UNCHANGED <<flowVars, facts, cache, lastFactId, touched, trav, probe>>

\* the round trip a call is suspended at rejects (the store or the
\* embedding service fails): the catch blocks of memory.ts
Fail(p) ==
    /\ pc[p] \in Awaits
    /\ LET l == [loc[p] EXCEPT !.failed = TRUE]
       IN IF CaughtBySearchFacts(l, pc[p])
            THEN IF l.op = "addFactIfNew"
                   THEN Goto(p, "lookupCached",
                             ThenAddFact([l EXCEPT !.page = EmptyPage]))
                   ELSE Return(p, [l EXCEPT !.page = EmptyPage], "ok")
            ELSE Return(p, l, "error")
    /\ UNCHANGED <<flowVars, facts, cache, lastFactId, touched, trav, probe>>

(***************************************************************************)
(* A client of searchFactsQuery that pages through one search: the first   *)
(* page without a cursor, then each next page with the cursor returned.    *)
(***************************************************************************)
NoTraversal ==
    [on |-> FALSE, fin |-> FALSE, qvec |-> 0, minSimilarity |-> 0, limit |-> 0,
     cursor |-> NoCursor, pages |-> <<>>]

FirstPage(qvec, minSimilarity, limit) ==
    /\ ~trav.on
    /\ \E results \in SelectRows(facts, cache, qvec, minSimilarity, limit, NoCursor) :
         LET page == PageOf(results, limit)
         IN trav' = [on |-> TRUE, fin |-> page.nextCursor = NoCursor,
                     qvec |-> qvec, minSimilarity |-> minSimilarity,
                     limit |-> limit, cursor |-> page.nextCursor,
                     pages |-> <<page.facts>>]
    /\ touched' = {}
    /\ UNCHANGED <<flowVars, facts, cache, lastFactId, pc, loc, probe>>

NextPage ==
    /\ trav.on /\ ~trav.fin
    /\ \E results \in SelectRows(facts, cache, trav.qvec, trav.minSimilarity,
                                  trav.limit, trav.cursor) :
         LET page == PageOf(results, trav.limit)
         IN trav' = [trav EXCEPT !.fin = page.nextCursor = NoCursor,
                                 !.cursor = page.nextCursor,
                                 !.pages = Append(trav.pages, page.facts)]
    /\ UNCHANGED <<flowVars, facts, cache, lastFactId, pc, loc, touched, probe>>

\* the client drops the finished traversal
ClosePages ==
    /\ trav.on /\ trav.fin
    /\ trav' = NoTraversal
    /\ touched' = {}
    /\ UNCHANGED <<flowVars, facts, cache, lastFactId, pc, loc, probe>>

(***************************************************************************)
(* Two independent runs of searchFactsQuery with the same arguments on the *)
(* same store.                                                             *)
(***************************************************************************)
NoProbe ==
    [on |-> FALSE, qvec |-> 0, minSimilarity |-> 0, limit |-> 0,
     cursor |-> NoCursor, run1 |-> EmptyPage, run2 |-> EmptyPage]

SearchTwice(qvec, minSimilarity, limit, cursor) ==
    /\ ~probe.on
    /\ \E r1, r2 \in SelectRows(facts, cache, qvec, minSimilarity, limit, cursor) :
         probe' = [on |-> TRUE, qvec |-> qvec, minSimilarity |-> minSimilarity,
                   limit |-> limit, cursor |-> cursor,
                   run1 |-> PageOf(r1, limit), run2 |-> PageOf(r2, limit)]
    /\ UNCHANGED <<flowVars, facts, cache, lastFactId, pc, loc, touched, trav>>

ForgetRuns ==
    /\ probe.on
    /\ probe' = NoProbe
    /\ UNCHANGED <<flowVars, facts, cache, lastFactId, pc, loc, touched, trav>>

(***************************************************************************)
(* Functions backed by the language model: expandQuery (expandQuery.ts)    *)
(* and extractFactsFromChapter (extractFacts.ts).  llm is the call under   *)
(* way: at is where it is suspended, calls counts the requests made to the *)
(* service, response is the last answer received, thrown the last          *)
(* rejection.                                                              *)
(***************************************************************************)
memoryVars == <<facts, cache, lastFactId, pc, loc, touched, trav, probe>>

ExpandQueryAttempts == 3
ExtractFactsAttempts == 3

\* what a rejected round trip throws: an Error object (its message is
\* "upstream failure" here) or any other value
Thrown == {"Error", "value"}

NoResult == [success |-> FALSE, facts |-> Undefined, error |-> Undefined]

NoLLM ==
    [op |-> "none", at |-> "idle", text |-> <<>>, withRetry |-> FALSE,
     attempts |-> 0, calls |-> 0, result |-> "none", value |-> <<>>,
     out |-> NoResult, response |-> Undefined, thrown |-> "none"]

\* retry(fn, n): fn is called again after a rejection while fewer than n
\* calls were made; after n calls the last rejection propagates unchanged
RetryAgain(calls, n) == calls < n

\* getExpandedQuery: content is response.choices[0]?.message?.content; the
\* result is text + ", " + expandedText
getExpandedQuery(text, content) ==
    LET expandedText == IF content = Undefined THEN Undefined
                        ELSE Some(Trim(content[1]))
    IN IF Falsy(expandedText) THEN text
       ELSE text \o <<",", " ">> \o expandedText[1]

\* expandQuery(text, withRetry = false)
expandQuery(text, withRetry) ==
    /\ llm.at = "idle"
    /\ llm' = [NoLLM EXCEPT !.op = "expandQuery", !.at = "service",
                            !.text = text, !.withRetry = withRetry,
                            !.attempts = IF withRetry THEN ExpandQueryAttempts
                                         ELSE 1]
    /\ UNCHANGED <<memoryVars, books, chapterRows, diagnostics, run, job>>

\* the completion arrives
ExpandQueryResponds(content) ==
    /\ llm.op = "expandQuery" /\ llm.at = "service"
    /\ llm' = [llm EXCEPT !.at = "done", !.calls = @ + 1, !.result = "ok",
                          !.response = Some(content),
                          !.value = getExpandedQuery(llm.text, content)]
    /\ UNCHANGED <<memoryVars, books, chapterRows, diagnostics, run, job>>

\* the request rejects.  expandQuery returns the promise of retry(...) or
\* of getExpandedQuery(...) without awaiting it, so its catch block sees
\* only what these calls throw before they return their promise, which is
\* nothing: the rejection is the rejection of expandQuery
ExpandQueryRejects(e) ==
    /\ llm.op = "expandQuery" /\ llm.at = "service"
    /\ llm' = IF RetryAgain(llm.calls + 1, llm.attempts)
                THEN [llm EXCEPT !.calls = @ + 1, !.thrown = e]
                ELSE [llm EXCEPT !.at = "done", !.calls = @ + 1,
                                 !.thrown = e, !.result = "error"]
    /\ UNCHANGED <<memoryVars, books, chapterRows, diagnostics, run, job>>

\* extractFactsFromChapter returning whatever list the model answered
FactExtractionResult_NoEmptyCheck(response) ==
    [success |-> TRUE, facts |-> Some(response), error |-> Undefined]

\* extractFactsFromChapter: the result for the list the model answered
FactExtractionResult(response) ==
    IF Len(response) = 0
        THEN [success |-> FALSE, facts |-> Undefined,
              error |-> Some("No facts were extracted from the chapter")]
        ELSE [success |-> TRUE, facts |-> Some(response), error |-> Undefined]

\* error instanceof Error ? error.message : "Unknown error occurred"
ExtractionError(e) ==
    IF e = "Error" THEN "upstream failure" ELSE "Unknown error occurred"

\* extractFactsFromChapter(chapterContent, chapterTitle): the content is
\* cleaned and put into the prompt, then the model is asked
extractFactsFromChapter(chapterContent) ==
    /\ llm.at = "idle"
    /\ llm' = [NoLLM EXCEPT !.op = "extractFactsFromChapter",
                            !.at = "service", !.text = chapterContent,
                            !.attempts = ExtractFactsAttempts]
    /\ UNCHANGED <<memoryVars, books, chapterRows, diagnostics, run, job>>

\* getLLMResponse resolves with a list of strings
ExtractFactsResponds(response) ==
    /\ llm.op = "extractFactsFromChapter" /\ llm.at = "service"
    /\ llm' = [llm EXCEPT !.at = "done", !.calls = @ + 1, !.result = "ok",
                          !.response = Some(response),
                          !.out = FactExtractionResult(response)]
    /\ UNCHANGED <<memoryVars, books, chapterRows, diagnostics, run, job>>

\* getLLMResponse rejects: retry asks again, or the catch block returns
ExtractFactsRejects(e) ==
    /\ llm.op = "extractFactsFromChapter" /\ llm.at = "service"
    /\ llm' = IF RetryAgain(llm.calls + 1, llm.attempts)
                THEN [llm EXCEPT !.calls = @ + 1, !.thrown = e]
                ELSE [llm EXCEPT !.at = "done", !.calls = @ + 1,
                                 !.thrown = e, !.result = "ok",
                                 !.out = [success |-> FALSE,
                                          facts |-> Undefined,
                                          error |-> Some(ExtractionError(e))]]
    /\ UNCHANGED <<memoryVars, books, chapterRows, diagnostics, run, job>>

\* the caller has taken the result
LLMForget ==
    /\ llm.at = "done"
    /\ llm' = NoLLM
    /\ UNCHANGED <<memoryVars, books, chapterRows, diagnostics, run, job>>

(***************************************************************************)
(* Book processing.  books, chapterRows and diagnostics are the book,      *)
(* chapter and chapter_parsing_diagnostic tables; run is the activation of *)
(* processChapter (at: the await it is suspended at), job the run of       *)
(* exampleUsage.  The fields failures (the collaborators that failed       *)
(* during the activation), existed (a diagnostic row of the chapter was    *)
(* there when the activation reached createInitialDiagnostic) and recorded *)
(* (the activation has written facts_extraction_status = SUCCESS) are      *)
(* history kept for the properties.  total_pages, page_start, page_end and *)
(* page_number are left out: nothing here reads them.                      *)
(***************************************************************************)
Paths == {"book.epub", "/books/book.epub"}

\* path.resolve(filePath): the absolute path of the file
pathResolve(filePath) ==
    IF filePath = "book.epub" THEN "/books/book.epub" ELSE filePath

\* parseEPUBBook(filePath): data.filePath is the resolved path, data.title
\* is "book"
NoParse == [success |-> FALSE, filePath |-> "", entries |-> 0]
parseEPUBBook(filePath, success, n) ==
    IF success
        THEN [success |-> TRUE, filePath |-> pathResolve(filePath),
              entries |-> n]
        ELSE NoParse

NoRun ==
    [at |-> "idle", filePath |-> "", entry |-> 0, bookId |-> 0,
     chapterId |-> 0, diagnosticCreated |-> FALSE, chapterContent |-> <<>>,
     factResult |-> NoResult, stored |-> 0, pageMapping |-> {},
     updatedCount |-> 0, thrown |-> "none", returned |-> "none",
     failures |-> {}, existed |-> FALSE, recorded |-> FALSE]

NoJob ==
    [at |-> "idle", filePath |-> "", result |-> NoParse, i |-> 0,
     successCount |-> 0, failureCount |-> 0, status |-> "none",
     bookId |-> 0, statusWriteFailed |-> FALSE]

\* updateBookStatus(bookId, status)
updateBookStatus(B, bookId, status) ==
    {IF b.id = bookId THEN [b EXCEPT !.status = status] ELSE b : b \in B}

\* createOrFindBook: findFirst({ OR: [{ file_path }, { title }] })
FoundBooks(B, filePath, title) ==
    {b \in B : b.file_path = filePath \/ b.title = title}

\* updateBookStatusByFilePath: findFirst({ file_path: filePath })
BooksAtPath(B, filePath) == {b \in B : b.file_path = filePath}

\* createOrFindChapter: findFirst({ book_id, title })
FoundChapters(C, bookId, title) ==
    {c \in C : c.book_id = bookId /\ c.title = title}

\* createInitialDiagnostic(chapterId, chapterTitle)
createInitialDiagnostic(chapterId) ==
    [chapter_id |-> chapterId, chapter_parsing_status |-> "TODO",
     facts_extraction_status |-> "TODO", fact_page_numbers_status |-> "TODO",
     error_message |-> Undefined, facts_count |-> 0,
     facts_with_page_numbers |-> 0]

\* chapter_id is the unique key of chapter_parsing_diagnostic (findUnique
\* and update address a row by it)
DiagnosticFound(D, chapterId) == \E d \in D : d.chapter_id = chapterId

NoUpdates ==
    [chapterParsingStatus |-> Undefined, factsExtractionStatus |-> Undefined,
     factPageNumbersStatus |-> Undefined, errorMessage |-> Undefined,
     factsCount |-> Undefined, factsWithPageNumbers |-> Undefined]

\* ...(updates.x !== undefined && { x: updates.x })
Given(v, old) == IF v = Undefined THEN old ELSE v[1]

\* updateChapterDiagnostic(chapterId, updates)
updateChapterDiagnostic(D, chapterId, updates) ==
    {IF d.chapter_id # chapterId THEN d
     ELSE [chapter_id |-> d.chapter_id,
           chapter_parsing_status |->
               Given(updates.chapterParsingStatus, d.chapter_parsing_status),
           facts_extraction_status |->
               Given(updates.factsExtractionStatus, d.facts_extraction_status),
           fact_page_numbers_status |->
               Given(updates.factPageNumbersStatus, d.fact_page_numbers_status),
           error_message |->
               IF updates.errorMessage = Undefined THEN d.error_message
               ELSE updates.errorMessage,
           facts_count |-> Given(updates.factsCount, d.facts_count),
           facts_with_page_numbers |->
               Given(updates.factsWithPageNumbers, d.facts_with_page_numbers)]
     : d \in D}

\* errorMessage || undefined
OrUndefined(m) == IF m = Undefined \/ m = Some("") THEN Undefined ELSE m

\* updateChapterParsingStatus(chapterId, status, errorMessage?)
updateChapterParsingStatus(D, chapterId, status, errorMessage) ==
    updateChapterDiagnostic(D, chapterId,
        [NoUpdates EXCEPT !.chapterParsingStatus = Some(status),
                          !.errorMessage = OrUndefined(errorMessage)])

\* updateFactsExtractionStatus(chapterId, status, factsCount = 0, errorMessage?)
updateFactsExtractionStatus(D, chapterId, status, factsCount, errorMessage) ==
    updateChapterDiagnostic(D, chapterId,
        [NoUpdates EXCEPT !.factsExtractionStatus = Some(status),
                          !.factsCount = Some(factsCount),
                          !.errorMessage = OrUndefined(errorMessage)])

\* updateFactPageNumbersStatus(chapterId, status, factsWithPageNumbers = 0,
\* errorMessage?)
updateFactPageNumbersStatus(D, chapterId, status, count, errorMessage) ==
    updateChapterDiagnostic(D, chapterId,
        [NoUpdates EXCEPT !.factPageNumbersStatus = Some(status),
                          !.factsWithPageNumbers = Some(count),
                          !.errorMessage = OrUndefined(errorMessage)])

\* error instanceof Error ? error.message : String(error)
CatchMessage(e) ==
    CASE e = "Error" -> "upstream failure"
      [] e = "addFacts" -> "Failed to add facts to chapter"
      [] e = "unique" -> "Unique constraint failed"
      [] OTHER -> "value"

\* a catch block that lets the error reach the caller of processChapter
Caught_Rethrows(r, e) ==
    [r EXCEPT !.thrown = e, !.at = "done", !.returned = "error"]

\* the catch block of processChapter is entered with error e: the
\* diagnostic is touched only when the activation has created it
Caught(r, e) ==
    IF r.chapterId # 0 /\ r.diagnosticCreated
        THEN [r EXCEPT !.thrown = e, !.at = "catch.chapter.findUnique"]
        ELSE [r EXCEPT !.thrown = e, !.at = "done", !.returned = "false"]

Finish(r, value) == [r EXCEPT !.at = "done", !.returned = value]

At(label) == run.at = label

\* processChapter(epubResult, chapterEntry, totalPages)
processChapter(epubResult, chapterEntry) ==
    /\ At("idle")
    /\ run' = IF ~epubResult.success
                THEN Finish([NoRun EXCEPT !.entry = chapterEntry], "false")
                ELSE [NoRun EXCEPT !.at = "book.findFirst",
                                   !.filePath = epubResult.filePath,
                                   !.entry = chapterEntry]
    /\ UNCHANGED <<memoryVars, books, chapterRows, diagnostics, job, llm>>

\* createOrFindBook: prisma.book.findFirst
BookFindFirst ==
    /\ At("book.findFirst")
    /\ LET found == FoundBooks(books, run.filePath, "book")
       IN IF found = {}
            THEN run' = [run EXCEPT !.at = "book.create"]
            ELSE \E b \in found :
                   run' = [run EXCEPT !.at = "setBookProcessingFacts",
                                      !.bookId = b.id]
    /\ UNCHANGED <<memoryVars, books, chapterRows, diagnostics, job, llm>>

\* createOrFindBook: prisma.book.create
BookCreate ==
    /\ At("book.create")
    /\ LET id == Cardinality(books) + 1
       IN /\ books' = books \cup {[id |-> id, title |-> "book",
                                   file_path |-> run.filePath,
                                   status |-> "PARSING"]}
          /\ run' = [run EXCEPT !.at = "setBookProcessingFacts", !.bookId = id]
    /\ UNCHANGED <<memoryVars, chapterRows, diagnostics, job, llm>>

\* await setBookProcessingFacts(book.id)
SetBookProcessingFacts ==
    /\ At("setBookProcessingFacts")
    /\ books' = updateBookStatus(books, run.bookId, "PROCESSING_FACTS")
    /\ run' = [run EXCEPT !.at = "chapter.findFirst"]
    /\ UNCHANGED <<memoryVars, chapterRows, diagnostics, job, llm>>

\* createOrFindChapter: prisma.chapter.findFirst
ChapterFindFirst ==
    /\ At("chapter.findFirst")
    /\ LET found == FoundChapters(chapterRows, run.bookId, run.entry)
       IN IF found = {}
            THEN run' = [run EXCEPT !.at = "chapter.create"]
            ELSE \E c \in found :
                   run' = [run EXCEPT !.at = "createInitialDiagnostic",
                                      !.chapterId = c.id]
    /\ UNCHANGED <<memoryVars, books, chapterRows, diagnostics, job, llm>>

\* createOrFindChapter: prisma.chapter.create, with the content ""
ChapterCreate ==
    /\ At("chapter.create")
    /\ LET id == Cardinality(chapterRows) + 1
       IN /\ chapterRows' = chapterRows \cup
                 {[id |-> id, book_id |-> run.bookId, title |-> run.entry,
                   content |-> <<>>]}
          /\ run' = [run EXCEPT !.at = "createInitialDiagnostic",
                                !.chapterId = id]
    /\ UNCHANGED <<memoryVars, books, diagnostics, job, llm>>

\* await createInitialDiagnostic(chapter.id, chapterEntry.title): the
\* create is rejected when the chapter has a diagnostic row already
CreateInitialDiagnostic ==
    /\ At("createInitialDiagnostic")
    /\ IF DiagnosticFound(diagnostics, run.chapterId)
         THEN /\ run' = Caught([run EXCEPT !.existed = TRUE], "unique")
              /\ UNCHANGED diagnostics
         ELSE /\ diagnostics' =
                     diagnostics \cup {createInitialDiagnostic(run.chapterId)}
              /\ run' = [run EXCEPT !.at = "extractChapterContent",
                                    !.diagnosticCreated = TRUE]
    /\ UNCHANGED <<memoryVars, books, chapterRows, job, llm>>

\* await extractChapterContent(epubResult.epub, chapterEntry.href)
ExtractChapterContent(content) ==
    /\ At("extractChapterContent")
    /\ run' = [run EXCEPT !.at = "chapter.update", !.chapterContent = content]
    /\ UNCHANGED <<memoryVars, books, chapterRows, diagnostics, job, llm>>

\* await prisma.chapter.update({ data: { content: chapterContent } })
ChapterUpdate ==
    /\ At("chapter.update")
    /\ chapterRows' = {IF c.id = run.chapterId
                         THEN [c EXCEPT !.content = run.chapterContent]
                         ELSE c : c \in chapterRows}
    /\ run' = [run EXCEPT !.at = "updateChapterParsingStatus"]
    /\ UNCHANGED <<memoryVars, books, diagnostics, job, llm>>

\* await updateChapterParsingStatus(chapter.id, "SUCCESS")
ChapterParsingSucceeded ==
    /\ At("updateChapterParsingStatus")
    /\ diagnostics' = updateChapterParsingStatus(diagnostics, run.chapterId,
                                                 "SUCCESS", Undefined)
    /\ run' = [run EXCEPT !.at = "extractFactsFromChapter"]
    /\ UNCHANGED <<memoryVars, books, chapterRows, job, llm>>

\* const factResult = await extractFactsFromChapter(...)
ExtractFactsReturned ==
    /\ At("extractFactsFromChapter")
    /\ llm.op = "extractFactsFromChapter" /\ llm.at = "done"
    /\ LET factResult == llm.out
           r == [run EXCEPT !.factResult = factResult]
       IN run' = IF ~factResult.success \/ factResult.facts = Undefined
                   THEN [r EXCEPT !.at = "updateFactsExtractionStatus.FAILED",
                                  !.failures = @ \cup {"extractFactsFromChapter"}]
                   ELSE [r EXCEPT !.at = "memory.addFacts"]
    /\ llm' = NoLLM
    /\ UNCHANGED <<memoryVars, books, chapterRows, diagnostics, job>>

\* await updateFactsExtractionStatus(chapter.id, "FAILED", 0,
\* factResult.error); return false
FactsExtractionFailed ==
    /\ At("updateFactsExtractionStatus.FAILED")
    /\ diagnostics' = updateFactsExtractionStatus(diagnostics, run.chapterId,
                          "FAILED", 0, run.factResult.error)
    /\ run' = Finish(run, "false")
    /\ UNCHANGED <<memoryVars, books, chapterRows, job, llm>>

\* const storedFacts = await memory.addFacts(chapter.id, factResult.facts)
AddFactsReturned ==
    /\ At("memory.addFacts")
    /\ pc["w1"] = "done" /\ loc["w1"].op = "addFacts"
    /\ run' = IF loc["w1"].result = "error"
                THEN Caught([run EXCEPT !.failures = @ \cup {"memory.addFacts"}],
                            "addFacts")
                ELSE [run EXCEPT !.at = "updateFactsExtractionStatus.SUCCESS",
                                 !.stored = Len(loc["w1"].value)]
    /\ Goto("w1", "idle", NoCall)
    /\ UNCHANGED <<facts, cache, lastFactId, touched, trav, probe,
                   books, chapterRows, diagnostics, job, llm>>

\* await updateFactsExtractionStatus(chapter.id, "SUCCESS", storedFacts.length)
FactsExtractionSucceeded ==
    /\ At("updateFactsExtractionStatus.SUCCESS")
    /\ diagnostics' = updateFactsExtractionStatus(diagnostics, run.chapterId,
                          "SUCCESS", run.stored, Undefined)
    /\ run' = [run EXCEPT !.at = "extractFactPageNumbers", !.recorded = TRUE]
    /\ UNCHANGED <<memoryVars, books, chapterRows, job, llm>>

\* const pageMapping = await extractFactPageNumbers(factTexts,
\* chapterContent): the mapping the model answered (its keys are kept), or
\* {} when the request failed; extractFactPageNumbers never rejects
ExtractFactPageNumbers(mapping, failed) ==
    /\ At("extractFactPageNumbers")
    /\ failed => mapping = {}
    /\ run' = [run EXCEPT
                 !.at = IF mapping # {}
                          THEN "updateFactPageNumbersForChapter"
                          ELSE "updateFactPageNumbersStatus.FAILED",
                 !.pageMapping = mapping,
                 !.failures = IF failed THEN @ \cup {"extractFactPageNumbers"}
                              ELSE @]
    /\ UNCHANGED <<memoryVars, books, chapterRows, diagnostics, job, llm>>

\* const updatedCount = await updateFactPageNumbersForChapter(chapter.id,
\* pageMapping): of the facts of the chapter the mapping has a page for,
\* the number whose update succeeded, 0 when the facts could not be read;
\* updateFactPageNumbersForChapter never rejects
UpdateFactPageNumbersForChapter(updatedCount, failed) ==
    /\ At("updateFactPageNumbersForChapter")
    /\ LET all == Cardinality({f \in facts : /\ f.ch = run.chapterId
                                              /\ f.text \in run.pageMapping})
       IN IF failed THEN updatedCount < all \/ updatedCount = 0
          ELSE updatedCount = all
    /\ run' = [run EXCEPT
                 !.at = "updateFactPageNumbersStatus.SUCCESS",
                 !.updatedCount = updatedCount,
                 !.failures = IF failed
                                THEN @ \cup {"updateFactPageNumbersForChapter"}
                                ELSE @]
    /\ UNCHANGED <<memoryVars, books, chapterRows, diagnostics, job, llm>>

\* await updateFactPageNumbersStatus(chapter.id, "SUCCESS",
\* factsWithPageNumbers); return true
PageNumbersSucceeded ==
    /\ At("updateFactPageNumbersStatus.SUCCESS")
    /\ diagnostics' = updateFactPageNumbersStatus(diagnostics, run.chapterId,
                          "SUCCESS", run.updatedCount, Undefined)
    /\ run' = Finish(run, "true")
    /\ UNCHANGED <<memoryVars, books, chapterRows, job, llm>>

\* await updateFactPageNumbersStatus(chapter.id, "FAILED", 0, "No page
\* numbers could be extracted"); return true
PageNumbersFailed ==
    /\ At("updateFactPageNumbersStatus.FAILED")
    /\ diagnostics' = updateFactPageNumbersStatus(diagnostics, run.chapterId,
                          "FAILED", 0,
                          Some("No page numbers could be extracted"))
    /\ run' = Finish(run, "true")
    /\ UNCHANGED <<memoryVars, books, chapterRows, job, llm>>

\* the round trip the activation is suspended at rejects: the awaits of
\* the try block whose promise may reject
Rejects(e) ==
    /\ run.at \in
          {"book.findFirst", "book.create", "setBookProcessingFacts",
           "chapter.findFirst", "chapter.create", "createInitialDiagnostic",
           "extractChapterContent", "chapter.update",
           "updateChapterParsingStatus",
           "updateFactsExtractionStatus.FAILED",
           "updateFactsExtractionStatus.SUCCESS",
           "updateFactPageNumbersStatus.SUCCESS",
           "updateFactPageNumbersStatus.FAILED"}
    /\ run' = Caught([run EXCEPT !.failures = @ \cup {run.at}], e)
    /\ UNCHANGED <<memoryVars, books, chapterRows, diagnostics, job, llm>>

\* catch: const chapter = await prisma.chapter.findUnique(...)
CatchFindUnique ==
    /\ At("catch.chapter.findUnique")
    /\ run' = IF \E c \in chapterRows : c.id = run.chapterId /\ c.content # <<>>
                THEN [run EXCEPT !.at = "catch.updateChapterParsingStatus.SUCCESS"]
                ELSE [run EXCEPT !.at = "catch.updateChapterParsingStatus.FAILED"]
    /\ UNCHANGED <<memoryVars, books, chapterRows, diagnostics, job, llm>>

\* catch: await updateChapterParsingStatus(chapterId, "SUCCESS")
CatchParsingSucceeded ==
    /\ At("catch.updateChapterParsingStatus.SUCCESS")
    /\ diagnostics' = updateChapterParsingStatus(diagnostics, run.chapterId,
                                                 "SUCCESS", Undefined)
    /\ run' = [run EXCEPT !.at = "catch.updateFactsExtractionStatus.FAILED"]
    /\ UNCHANGED <<memoryVars, books, chapterRows, job, llm>>

\* catch: await updateFactsExtractionStatus(chapterId, "FAILED", 0,
\* errorMessage); return false
CatchFactsExtractionFailed ==
    /\ At("catch.updateFactsExtractionStatus.FAILED")
    /\ diagnostics' = updateFactsExtractionStatus(diagnostics, run.chapterId,
                          "FAILED", 0, Some(CatchMessage(run.thrown)))
    /\ run' = Finish(run, "false")
    /\ UNCHANGED <<memoryVars, books, chapterRows, job, llm>>

\* catch: await updateChapterParsingStatus(chapterId, "FAILED",
\* errorMessage); return false
CatchParsingFailed ==
    /\ At("catch.updateChapterParsingStatus.FAILED")
    /\ diagnostics' = updateChapterParsingStatus(diagnostics, run.chapterId,
                          "FAILED", Some(CatchMessage(run.thrown)))
    /\ run' = Finish(run, "false")
    /\ UNCHANGED <<memoryVars, books, chapterRows, job, llm>>

\* a round trip of the catch block rejects: the inner catch logs it
CatchRejects ==
    /\ run.at \in
          {"catch.chapter.findUnique",
           "catch.updateChapterParsingStatus.SUCCESS",
           "catch.updateFactsExtractionStatus.FAILED",
           "catch.updateChapterParsingStatus.FAILED"}
    /\ run' = Finish([run EXCEPT !.failures = @ \cup {run.at}], "false")
    /\ UNCHANGED <<memoryVars, books, chapterRows, diagnostics, job, llm>>

\* a caller other than exampleUsage has taken the result
RunForget ==
    /\ At("done") /\ job.at = "idle"
    /\ run' = NoRun
    /\ UNCHANGED <<memoryVars, books, chapterRows, diagnostics, job, llm>>

(***************************************************************************)
(* exampleUsage(): parse the book, process its chapters one after the      *)
(* other, then write the status of the book.  The chapter range arguments  *)
(* and the diagnostic statistics (reads inside a try block of their own)   *)
(* are left out: all the chapters of the index are processed.              *)
(***************************************************************************)
exampleUsage(filePath) ==
    /\ job.at = "idle" /\ At("idle")
    /\ job' = [NoJob EXCEPT !.at = "parseEPUBBook", !.filePath = filePath]
    /\ UNCHANGED <<memoryVars, books, chapterRows, diagnostics, run, llm>>

\* const result = await parseEPUBBook(filePath)
ParseEPUBBook(success, n) ==
    /\ job.at = "parseEPUBBook"
    /\ LET result == parseEPUBBook(job.filePath, success, n)
       IN job' = [job EXCEPT
                    !.result = result,
                    !.status = IF result.success THEN "none" ELSE "ERROR",
                    !.at = IF ~result.success THEN "status.findFirst"
                           ELSE IF result.entries > 0 THEN "chapters"
                           ELSE "done"]
    /\ UNCHANGED <<memoryVars, books, chapterRows, diagnostics, run, llm>>

\* processChapter has returned (or thrown): the counters, then the next
\* chapter or the status exampleUsage writes after the loop
ChapterReturned ==
    /\ job.at = "chapters" /\ At("done")
    /\ LET success == run.returned = "true"
           successCount == job.successCount + (IF success THEN 1 ELSE 0)
           failureCount == job.failureCount + (IF success THEN 0 ELSE 1)
           last == job.i + 1 = job.result.entries
       IN job' = [job EXCEPT
                    !.i = @ + 1,
                    !.successCount = successCount,
                    !.failureCount = failureCount,
                    !.at = IF last THEN "status.findFirst" ELSE "chapters",
                    !.status = IF ~last THEN "none"
                               ELSE IF failureCount = 0 THEN "COMPLETED"
                               ELSE IF successCount = 0 THEN "ERROR"
                               ELSE "COMPLETED"]
    /\ run' = NoRun
    /\ UNCHANGED <<memoryVars, books, chapterRows, diagnostics, llm>>

\* updateBookStatusByFilePath(filePath, status): prisma.book.findFirst,
\* null when no book has the path
StatusFindFirst ==
    /\ job.at = "status.findFirst"
    /\ LET found == BooksAtPath(books, job.filePath)
       IN IF found = {}
            THEN job' = [job EXCEPT !.at = "done"]
            ELSE \E b \in found :
                   job' = [job EXCEPT !.at = "status.update", !.bookId = b.id]
    /\ UNCHANGED <<memoryVars, books, chapterRows, diagnostics, run, llm>>

\* updateBookStatusByFilePath: return await updateBookStatus(book.id, status)
StatusUpdate ==
    /\ job.at = "status.update"
    /\ books' = updateBookStatus(books, job.bookId, job.status)
    /\ job' = [job EXCEPT !.at = "done"]
    /\ UNCHANGED <<memoryVars, chapterRows, diagnostics, run, llm>>

\* a round trip of updateBookStatusByFilePath rejects: logged
StatusRejects ==
    /\ job.at \in {"status.findFirst", "status.update"}
    /\ job' = [job EXCEPT !.at = "done", !.statusWriteFailed = TRUE]
    /\ UNCHANGED <<memoryVars, books, chapterRows, diagnostics, run, llm>>

\* the process has ended
JobForget ==
    /\ job.at = "done"
    /\ job' = NoJob
    /\ UNCHANGED <<memoryVars, books, chapterRows, diagnostics, run, llm>>

(***************************************************************************)
(* Inputs and specifications.                                              *)
(***************************************************************************)
Procs == {"w1", "w2"}

RECURSIVE ListsUpTo(_)
ListsUpTo(n) ==
    IF n = 0 THEN {<<>>}
    ELSE LET shorter == ListsUpTo(n - 1)
         IN shorter \cup {Append(s, t) : s \in {x \in shorter : Len(x) = n - 1},
                                        t \in Texts}

Lists == ListsUpTo(MaxLen)
FactIds == 1..MaxFactId
Similarities == {0, 71, 100}
Cursors ==
    {NoCursor} \cup {[lastId |-> i, lastSimilarity |-> x] :
                        i \in 0..MaxFactId, x \in Similarities}

vars ==
    <<facts, cache, lastFactId, pc, loc, touched, trav, probe,
      books, chapterRows, diagnostics, run, job, llm>>

InitFlow ==
    /\ books = {}
    /\ chapterRows = {}
    /\ diagnostics = {}
    /\ run = NoRun
    /\ job = NoJob
    /\ llm = NoLLM

Init ==
    /\ facts = {}
    /\ cache = {}
    /\ lastFactId = 0
    /\ pc = [p \in Procs |-> "idle"]
    /\ loc = [p \in Procs |-> NoCall]
    /\ touched = {}
    /\ trav = NoTraversal
    /\ probe = NoProbe
    /\ InitFlow

\* the calls a caller may make
Call(p) ==
    \/ \E c \in Chapters, ts \in Lists : addFacts(p, c, ts)
    \/ \E c \in Chapters, t \in Texts : addFact(p, c, t)
    \/ \E c \in Chapters, i \in FactIds, t \in Texts : updateFact(p, c, i, t)
    \/ \E c \in Chapters, i \in FactIds : deleteFact(p, c, i)
    \/ \E c \in Chapters : deleteAllFacts(p, c)
    \/ \E c \in Chapters, ts \in Lists, wd \in BOOLEAN : upsertFacts(p, c, ts, wd)
    \/ \E c \in Chapters, t \in Texts,
          x \in {Some(y) : y \in Similarities} \cup {Undefined} :
           addFactIfNew(p, c, t, x)
    \/ \E t \in {Some(y) : y \in Texts} \cup {Undefined},
          x \in {Some(71), Undefined}, n \in {Some(1), Undefined} :
           searchFacts(p, t, x, n, NoCursor)
    \/ \E c \in Chapters, t \in {Some(TA), Undefined},
          x \in {Some(71), Undefined} :
           searchFactsByChapter(p, c, t, x, Undefined, NoCursor)

\* the awaits of a call
Step(p) ==
    \/ LookupCached(p)
    \/ CreateCached(p)
    \/ AddFactsQueryStep(p)
    \/ GetFactsStep(p)
    \/ AddFactQueryStep(p)
    \/ UpdateFactQueryStep(p)
    \/ DeleteFactQueryStep(p)
    \/ DeleteAllFactsQueryStep(p)
    \/ UpsertGetFactsStep(p)
    \/ SearchFactsQueryStep(p)
    \/ Fail(p)

\* one caller at a time
Next == Call("w1") \/ Step("w1") \/ Forget("w1")

Spec == Init /\ [][Next]_vars

\* two callers whose round trips interleave, on one chapter: w1 makes any
\* call that writes, w2 the calls that make one store write each (between
\* them every kind of write the store has)
ConcTexts == {TA, TPadA}
ConcLists == {<<TA>>, <<TPadA>>, <<TPadA, TA>>}
ConcCall(p) ==
    \/ \E ts \in ConcLists : addFacts(p, 1, ts)
    \/ \E t \in ConcTexts : addFact(p, 1, t)
    \/ \E i \in FactIds, t \in ConcTexts : updateFact(p, 1, i, t)
    \/ \E i \in FactIds : deleteFact(p, 1, i)
    \/ deleteAllFacts(p, 1)
    \/ \E ts \in ConcLists, wd \in BOOLEAN : upsertFacts(p, 1, ts, wd)

ConcStep(p) ==
    \/ LookupCached(p)
    \/ CreateCached(p)
    \/ AddFactsQueryStep(p)
    \/ GetFactsStep(p)
    \/ AddFactQueryStep(p)
    \/ UpdateFactQueryStep(p)
    \/ DeleteFactQueryStep(p)
    \/ DeleteAllFactsQueryStep(p)
    \/ UpsertGetFactsStep(p)
    \/ Fail(p)

SingleWriteCall(p) ==
    \/ \E t \in ConcTexts : addFact(p, 1, t)
    \/ \E i \in FactIds, t \in ConcTexts : updateFact(p, 1, i, t)
    \/ \E i \in FactIds : deleteFact(p, 1, i)
    \/ deleteAllFacts(p, 1)

NextConc ==
    \/ ConcCall("w1")
    \/ SingleWriteCall("w2")
    \/ \E p \in Procs : ConcStep(p) \/ Forget(p)

SpecConc == Init /\ [][NextConc]_vars

\* a client pages through a search, or runs one search twice, while a
\* caller inserts, updates and deletes facts
\* two upsertFacts calls with the same chapter, the same list and
\* withDelete = true that run concurrently: a call starts while the other
\* caller is idle or in the middle of its call with the same list, never
\* after the other call has returned.  The delete loop is no step here:
\* the list of facts to delete is empty in every upsertFacts.
Other(p) == CHOOSE q \in Procs : q # p

ConcurrentUpsert(p) ==
    \E ts \in ConcLists :
        /\ Free(p)
        /\ pc[Other(p)] # "done"
        /\ Free(Other(p)) \/ loc[Other(p)].texts = ts
        /\ upsertFacts(p, 1, ts, TRUE)

UpsertStep(p) ==
    \/ LookupCached(p)
    \/ CreateCached(p)
    \/ AddFactsQueryStep(p)
    \/ GetFactsStep(p)
    \/ UpdateFactQueryStep(p)
    \/ UpsertGetFactsStep(p)
    \/ Fail(p)

NextUpserts == \E p \in Procs : ConcurrentUpsert(p) \/ UpsertStep(p)

SpecUpserts == Init /\ [][NextUpserts]_vars

QueryVectors == {EmbedVec(t) : t \in Texts}
Limits == 0..MaxLimit

SearchCall(p) ==
    \/ \E t \in Texts : addFacts(p, 1, <<t>>)
    \/ \E i \in FactIds, t \in Texts : updateFact(p, 1, i, t)
    \/ \E i \in FactIds : deleteFact(p, 1, i)

SearchStep(p) ==
    \/ LookupCached(p)
    \/ CreateCached(p)
    \/ AddFactsQueryStep(p)
    \/ GetFactsStep(p)
    \/ UpdateFactQueryStep(p)
    \/ DeleteFactQueryStep(p)
    \/ Fail(p)
    \/ Forget(p)

Paging ==
    \/ \E v \in QueryVectors, x \in Similarities, n \in Limits \ {0} :
           FirstPage(v, x, n)
    \/ NextPage

Probing ==
    \E v \in QueryVectors, x \in Similarities, n \in Limits, c \in Cursors :
        SearchTwice(v, x, n, c)

NextSearch ==
    \/ ~(trav.on /\ trav.fin) /\ ~probe.on
          /\ (SearchCall("w1") \/ SearchStep("w1") \/ Paging)
    \/ ~trav.on /\ Free("w1") /\ Probing
    \/ ClosePages
    \/ ForgetRuns

\* the store holds one fact of chapter 2 from the start: the caller, who
\* writes to chapter 1, cannot change it
InitSearch ==
    /\ cache = createCachedEmbedding({}, TA, EmbedVec(TA))
    /\ facts = addFactQuery({}, 0 - 1, 2, [text |-> TA, cachedEmbeddingId |-> 1])
    /\ lastFactId = 0
    /\ pc = [p \in Procs |-> "idle"]
    /\ loc = [p \in Procs |-> NoCall]
    /\ touched = {}
    /\ trav = NoTraversal
    /\ probe = NoProbe
    /\ InitFlow

SpecSearch == InitSearch /\ [][NextSearch]_vars

(***************************************************************************)
(* Book processing: runs of exampleUsage and calls of processChapter by    *)
(* another caller, one after the other, on the same tables.                *)
(***************************************************************************)
Extracted == {<<>>, <<TA>>, <<TA, TPadA>>}

NextBook ==
    \/ \E f \in Paths : exampleUsage(f)
    \/ \E success \in BOOLEAN, n \in 0..NumChapters : ParseEPUBBook(success, n)
    \/ job.at = "chapters" /\ processChapter(job.result, job.i + 1)
    \/ ChapterReturned
    \/ StatusFindFirst
    \/ StatusUpdate
    \/ StatusRejects
    \/ JobForget
    \/ \E r \in {NoParse, parseEPUBBook("book.epub", TRUE, NumChapters)},
          c \in Chapters : job.at = "idle" /\ processChapter(r, c)
    \/ RunForget
    \/ BookFindFirst
    \/ BookCreate
    \/ SetBookProcessingFacts
    \/ ChapterFindFirst
    \/ ChapterCreate
    \/ CreateInitialDiagnostic
    \/ \E content \in {TEmpty, TA} : ExtractChapterContent(content)
    \/ ChapterUpdate
    \/ ChapterParsingSucceeded
    \/ At("extractFactsFromChapter")
          /\ extractFactsFromChapter(run.chapterContent)
    \/ \E ts \in Extracted : ExtractFactsResponds(ts)
    \/ \E e \in Thrown : ExtractFactsRejects(e)
    \/ ExtractFactsReturned
    \/ FactsExtractionFailed
    \/ At("memory.addFacts")
          /\ addFacts("w1", run.chapterId, run.factResult.facts[1])
    \/ LookupCached("w1")
    \/ CreateCached("w1")
    \/ AddFactsQueryStep("w1")
    \/ GetFactsStep("w1")
    \/ Fail("w1")
    \/ AddFactsReturned
    \/ FactsExtractionSucceeded
    \/ At("extractFactPageNumbers")
          /\ \E mapping \in SUBSET Range(run.factResult.facts[1]),
                failed \in BOOLEAN : ExtractFactPageNumbers(mapping, failed)
    \/ \E k \in 0..MaxFactId, failed \in BOOLEAN :
           UpdateFactPageNumbersForChapter(k, failed)
    \/ PageNumbersSucceeded
    \/ PageNumbersFailed
    \/ \E e \in Thrown : Rejects(e)
    \/ CatchFindUnique
    \/ CatchParsingSucceeded
    \/ CatchFactsExtractionFailed
    \/ CatchParsingFailed
    \/ CatchRejects

SpecBook == Init /\ [][NextBook]_vars

\* calls of expandQuery and of extractFactsFromChapter, one at a time
NextLLM ==
    \/ \E t \in Texts, withRetry \in BOOLEAN : expandQuery(t, withRetry)
    \/ \E c \in {Undefined} \cup {Some(t) : t \in Texts} :
           ExpandQueryResponds(c)
    \/ \E e \in Thrown : ExpandQueryRejects(e)
    \/ \E c \in {TEmpty, TA} : extractFactsFromChapter(c)
    \/ \E ts \in Lists : ExtractFactsResponds(ts)
    \/ \E e \in Thrown : ExtractFactsRejects(e)
    \/ LLMForget

SpecLLM == Init /\ [][NextLLM]_vars

(***************************************************************************)
(* Properties of the search (SpecSearch).                                  *)
(***************************************************************************)
\* the similarity of a stored fact to a query vector
SimilarityOf(f, qvec) == Cosine(qvec, (CHOOSE c \in cache : c.id = f.emb).vec)

\* the stored facts at or above a threshold
AtLeast(qvec, minSimilarity) ==
    {f \in facts : SimilarityOf(f, qvec) >= minSimilarity}

RECURSIVE Flatten(_)
Flatten(pages) ==
    IF pages = <<>> THEN <<>> ELSE Head(pages) \o Flatten(Tail(pages))

Occurrences(rows, id) == Cardinality({i \in DOMAIN rows : rows[i].id = id})

\* rows in strictly decreasing (similarity, id) order
StrictlyDecreasing(rows) ==
    \A i \in 1..(Len(rows) - 1) :
        \/ rows[i].similarity > rows[i + 1].similarity
        \/ /\ rows[i].similarity = rows[i + 1].similarity
           /\ rows[i].id > rows[i + 1].id

\* a traversal that has fetched its last page while no fact was written
QuietTraversalDone == trav.on /\ trav.fin /\ touched = {}

\* C2: when no fact is written during a traversal with page size >= 1, the
\* concatenated pages are exactly the facts with similarity >= minSimilarity,
\* each once, with its similarity, in strictly decreasing (similarity, id)
\* order.
C2_PagesAreTheRanking ==
    QuietTraversalDone =>
        LET out == Flatten(trav.pages)
            all == AtLeast(trav.qvec, trav.minSimilarity)
        IN /\ {r.id : r \in Range(out)} = Ids(all)
           /\ \A f \in all : Occurrences(out, f.id) = 1
           /\ \A r \in Range(out) : \A f \in all :
                 f.id = r.id => r.similarity = SimilarityOf(f, trav.qvec)
           /\ StrictlyDecreasing(out)

\* C2 witness: a quiet traversal of three pages whose first two rows tie
C2_Witness ==
    /\ QuietTraversalDone
    /\ Len(trav.pages) = 3
    /\ LET out == Flatten(trav.pages)
       IN Len(out) = 3 /\ out[1].similarity = out[2].similarity

\* C7 as claimed, for every limit >= 0: a next cursor is returned iff a fact
\* matching the threshold and the cursor lies beyond the page, and then the
\* page holds limit facts and the cursor is the last of them.
Beyond(page) ==
    {f \in AtLeast(probe.qvec, probe.minSimilarity) :
        /\ f.id \notin {r.id : r \in Range(page.facts)}
        /\ \/ probe.cursor = NoCursor
           \/ SimilarityOf(f, probe.qvec) < probe.cursor.lastSimilarity
           \/ /\ SimilarityOf(f, probe.qvec) = probe.cursor.lastSimilarity
              /\ f.id < probe.cursor.lastId}

CursorIffMore(page) ==
    /\ page.nextCursor # NoCursor <=> Beyond(page) # {}
    /\ page.nextCursor # NoCursor =>
          /\ Len(page.facts) = probe.limit
          /\ page.nextCursor.lastId = page.facts[Len(page.facts)].id
          /\ page.nextCursor.lastSimilarity =
                 page.facts[Len(page.facts)].similarity

C7_CursorIffMoreAnyLimit == probe.on => CursorIffMore(probe.run1)

\* C7 amended: the same for every limit >= 1 (with limit 0 no cursor is
\* returned, whatever matches).
C7_CursorIffMore == (probe.on /\ probe.limit >= 1) => CursorIffMore(probe.run1)

\* C7 witness: a search with a cursor that returns a next cursor
C7_Witness ==
    /\ probe.on /\ probe.limit >= 1
    /\ probe.cursor # NoCursor
    /\ probe.run1.nextCursor # NoCursor

\* C8 as claimed: whatever is written between the page fetches, no fact is
\* returned on two pages, and at the end every matching fact that was not
\* written has been returned once.
UnwrittenOnce ==
    LET out == Flatten(trav.pages)
    IN /\ \A r \in Range(out) :
             r.id \notin touched => Occurrences(out, r.id) = 1
       /\ trav.fin =>
             \A f \in AtLeast(trav.qvec, trav.minSimilarity) :
                 f.id \notin touched => Occurrences(out, f.id) = 1

C9_SameRunsSameOrder ==
    probe.on =>
        /\ probe.run1 = probe.run2
        /\ \A i, j \in DOMAIN probe.run1.facts :
              (i < j /\ probe.run1.facts[i].similarity
                           = probe.run1.facts[j].similarity)
                  => probe.run1.facts[i].id > probe.run1.facts[j].id

\* C9 witness: a page with two rows of equal similarity
C9_Witness ==
    /\ probe.on
    /\ \E i, j \in DOMAIN probe.run1.facts :
          i < j /\ probe.run1.facts[i].similarity = probe.run1.facts[j].similarity

\* C10: no row below minSimilarity is ever returned, and a quiet traversal
\* returns every fact whose similarity equals minSimilarity and no fact
\* below it.
C10_ThresholdInclusive ==
    trav.on =>
        /\ \A r \in Range(Flatten(trav.pages)) :
              r.similarity >= trav.minSimilarity
        /\ QuietTraversalDone =>
              \A f \in facts :
                 LET x == SimilarityOf(f, trav.qvec)
                     n == Occurrences(Flatten(trav.pages), f.id)
                 IN /\ x = trav.minSimilarity => n = 1
                    /\ x < trav.minSimilarity => n = 0

\* C10 witness: a fact exactly at the threshold returned on the second
\* page, with a fact below the threshold in the store
C10_Witness ==
    /\ QuietTraversalDone
    /\ Len(trav.pages) = 2
    /\ \E r \in Range(trav.pages[2]) : r.similarity = trav.minSimilarity
    /\ \E f \in facts : SimilarityOf(f, trav.qvec) < trav.minSimilarity

(***************************************************************************)
(* Properties of the calls of one caller (Spec).                           *)
(***************************************************************************)
Finished(p, op) == pc[p] = "done" /\ loc[p].op = op /\ loc[p].result = "ok"

ChapterTexts(chapterId) == {f.text : f \in {g \in facts : g.ch = chapterId}}

\* C1 as claimed: when upsertFacts(chapterId, T, withDelete = true) has
\* completed without failure, the texts of the chapter's stored facts are
\* exactly the texts of T.
C1_UpsertConverges ==
    (Finished("w1", "upsertFacts") /\ loc["w1"].withDelete
        /\ ~loc["w1"].failed)
        => ChapterTexts(loc["w1"].chapterId) = Range(loc["w1"].texts)

\* C3 as claimed: an upsertFacts made once more with the same arguments,
\* right after it has completed, inserts no fact and deletes no fact.
C3_SecondUpsertWritesNothing ==
    (Finished("w1", "upsertFacts") /\ loc["w1"].previous = "ok")
        => loc["w1"].inserted = 0 /\ loc["w1"].deleted = 0

\* C4 as claimed: a searchFacts call never ends in an error, and one that
\* met a failure of the embedding service or of the store returns the
\* empty page.
C4_SearchNeverErrors ==
    (pc["w1"] = "done" /\ loc["w1"].op = "searchFacts")
        => /\ loc["w1"].result = "ok"
           /\ loc["w1"].failed => loc["w1"].page = EmptyPage

\* C5 as claimed: addFactIfNew(chapterId, text, minSimilarity) returns null
\* and stores nothing when a fact stored before the call has similarity
\* >= minSimilarity to the embedding of text, and otherwise creates exactly
\* one fact, in chapterId; minSimilarity is the option the caller passed
\* (0.9 when none is passed).
C5_AddsOnlyWhenNew ==
    Finished("w1", "addFactIfNew") =>
        LET l == loc["w1"]
            minSimilarity == Default(l.option, AddFactIfNewSimilarity)
            created == {f \in facts : ~l.isNull /\ f.id \in Range(l.value)}
            similar == \E f \in facts \ created :
                          SimilarityOf(f, EmbedVec(l.texts[1])) >= minSimilarity
        IN IF similar
             THEN l.isNull /\ l.inserted = 0
             ELSE /\ ~l.isNull /\ l.inserted = 1
                  /\ Cardinality(created) = 1
                  /\ \A f \in created : f.ch = l.chapterId

(***************************************************************************)
(* Properties of interleaved calls (SpecConc).                             *)
(***************************************************************************)
\* C6: in every state, whatever calls have run, interleaved or failed
\* partway, every stored fact references exactly one row of the cache.
C6_FactsReferenceOneCacheRow ==
    \A f \in facts : Cardinality({c \in cache : c.id = f.emb}) = 1

\* C6 witness: an upsertFacts that failed after it had inserted a fact,
\* while the other caller is in the middle of a call, with two facts stored
C6_Witness ==
    /\ pc["w1"] = "done" /\ loc["w1"].op = "upsertFacts"
    /\ loc["w1"].result = "error" /\ loc["w1"].inserted > 0
    /\ pc["w2"] \notin {"idle", "done"}
    /\ Cardinality(facts) = 2

(***************************************************************************)
(* Properties of the writes of one caller (Spec).                          *)
(***************************************************************************)
\* the step by which a call of w1 suspended at label returns
Returns(op, label) ==
    /\ loc["w1"].op = op /\ pc["w1"] = label
    /\ pc'["w1"] = "done"

ReturnsOk(op, label) == Returns(op, label) /\ loc'["w1"].result = "ok"

\* the ids of the facts the finished call of w1 has inserted
InsertedIds == (lastFactId - loc["w1"].inserted + 1)..lastFactId

\* C11 as claimed: updateFact(chapterId, factId, newText) keeps the id and
\* the chapter of the fact, sets its text to newText (so a fact updated
\* with its own text keeps that text), binds it to a cache row for newText
\* and changes no other fact.
C11_UpdateSetsNewText ==
    [][ReturnsOk("updateFact", "updateFactQuery") =>
          LET l == loc["w1"]
              newText == l.texts[1]
          IN \E f \in facts : \E g \in facts' :
               /\ f.id = l.factId /\ f.ch = l.chapterId
               /\ g.id = f.id /\ g.ch = f.ch
               /\ g.text = newText
               /\ \E c \in cache : c.id = g.emb /\ c.text = newText
               /\ facts' \ {g} = facts \ {f}]_vars

\* C12 as claimed: addFacts(chapterId, texts) creates one fact per element
\* of texts, in chapterId and with that text, and returns exactly the
\* facts it created.
C12_AddFactsReturnsCreated ==
    (Finished("w1", "addFacts") /\ Len(loc["w1"].texts) > 0) =>
        LET l == loc["w1"]
            first == lastFactId - Len(l.texts)
        IN /\ l.inserted = Len(l.texts)
           /\ \A i \in DOMAIN l.texts :
                 \E f \in facts : /\ f.id = first + i /\ f.ch = l.chapterId
                                  /\ f.text = l.texts[i]
           /\ Range(l.value) = InsertedIds

\* C13: while an upsertFacts with withDelete = false runs, no step removes
\* a fact or changes its id or chapter: every fact stored before the call,
\* in the desired list or not, is stored with the same id after it.
C13_NoDeleteWithoutFlag ==
    [][(/\ loc["w1"].op = "upsertFacts" /\ ~loc["w1"].withDelete
        /\ pc["w1"] \notin {"idle", "done"})
          => \A f \in facts : \E g \in facts' : g.id = f.id /\ g.ch = f.ch]_vars

\* C13 witness: a finished upsertFacts without delete that has inserted a
\* fact and left a fact of the chapter whose text is not in the list
C13_Witness ==
    /\ Finished("w1", "upsertFacts") /\ ~loc["w1"].withDelete
    /\ loc["w1"].inserted > 0
    /\ \E f \in facts : /\ f.ch = loc["w1"].chapterId
                         /\ f.id \notin InsertedIds
                         /\ f.text \notin Range(loc["w1"].texts)

\* C14: the value upsertFacts returns holds the facts the call inserted
\* and the facts it updated, each once, and no other fact.
C14_UpsertReturnsInsertedAndUpdated ==
    Finished("w1", "upsertFacts") =>
        LET l == loc["w1"]
        IN /\ Range(l.value) = InsertedIds \cup l.updated
           /\ Len(l.value) = Cardinality(Range(l.value))

\* C14 witness: an upsertFacts that has inserted one fact and updated
\* another
C14_Witness ==
    /\ Finished("w1", "upsertFacts")
    /\ loc["w1"].inserted = 1
    /\ Cardinality(loc["w1"].updated) = 1
    /\ Len(loc["w1"].value) = 2

WriteOps ==
    {"addFacts", "addFact", "updateFact", "deleteFact", "deleteAllFacts",
     "upsertFacts"}

\* C15: a write call that has met a failure of the embedding service or of
\* the store has ended, and ended in an error.
C15_WriteFailuresPropagate ==
    \A p \in Procs :
        (loc[p].op \in WriteOps /\ loc[p].failed)
            => pc[p] = "done" /\ loc[p].result = "error"

\* C15 witness: an upsertFacts that failed after it had inserted a fact
C15_Witness ==
    /\ pc["w1"] = "done" /\ loc["w1"].op = "upsertFacts"
    /\ loc["w1"].failed /\ loc["w1"].inserted > 0
    /\ loc["w1"].result = "error"

\* what deleteAllFacts and deleteFact do to the store
DeleteAllEffect ==
    ReturnsOk("deleteAllFacts", "deleteAllFactsQuery")
        => facts' = {f \in facts : f.ch # loc["w1"].chapterId}

DeleteOneEffect ==
    Returns("deleteFact", "deleteFactQuery") =>
        LET hit == {f \in facts : /\ f.id \in loc["w1"].delQ
                                  /\ f.ch = loc["w1"].chapterId}
        IN IF loc'["w1"].result = "ok"
             THEN Cardinality(hit) = 1 /\ facts' = facts \ hit
             ELSE facts' = facts

\* C17 as claimed: deleteAllFacts(chapterId) removes the facts of chapterId
\* and no other, and returns the number of facts it deleted; deleteFact
\* removes the fact of that id, and only if chapterId owns it.
C17_DeleteAllReportsCount ==
    [][/\ DeleteAllEffect
       /\ DeleteOneEffect
       /\ ReturnsOk("deleteAllFacts", "deleteAllFactsQuery") =>
             loc'["w1"].value =
                 Some(Cardinality({f \in facts : f.ch = loc["w1"].chapterId}))]_vars

\* C17 amended: the same effects on the store, and deleteAllFacts returns
\* nothing (the count stays with deleteAllFactsQuery).
C17_DeletesOwnedFactsOnly ==
    [][/\ DeleteAllEffect
       /\ DeleteOneEffect
       /\ ReturnsOk("deleteAllFacts", "deleteAllFactsQuery") =>
             loc'["w1"].value = Undefined]_vars

\* C17 witness: deleteAllFacts has deleted a fact and a fact of another
\* chapter is still stored
C17_Witness ==
    /\ Finished("w1", "deleteAllFacts") /\ loc["w1"].deleted > 0
    /\ \E f \in facts : f.ch # loc["w1"].chapterId

\* C18 as claimed: a search scoped to a chapter returns only facts of that
\* chapter.
C18_ScopedSearchStaysInChapter ==
    Finished("w1", "searchFactsByChapter") =>
        \A r \in Range(loc["w1"].page.facts) :
            r.chapter_id = loc["w1"].chapterId

(***************************************************************************)
(* Properties of the cache under interleaved calls (SpecConc).             *)
(***************************************************************************)
\* C16: no step removes a cache row or changes its text or vector.
C16_CacheRowsStay == [][\A c \in cache : c \in cache']_vars

\* C16 witness: a delete has left a cache row that no fact references
C16_Witness ==
    /\ \E p \in Procs : /\ pc[p] = "done" /\ loc[p].deleted > 0
                         /\ loc[p].op \in {"deleteFact", "deleteAllFacts"}
    /\ \E c \in cache : \A f \in facts : f.emb # c.id

\* C19: the insert that follows a cache miss adds exactly one row, whether
\* or not a row with the text has been inserted since the lookup, so two
\* rows with one text can come to exist.
C19_InsertAlwaysAddsOneRow ==
    [][\A p \in Procs :
          (/\ pc[p] = "createCached"
           /\ loc[p].got \subseteq loc'[p].got /\ loc'[p].got # loc[p].got)
              => /\ cache \subseteq cache'
                 /\ Cardinality(cache') = Cardinality(cache) + 1]_vars

\* C19 witness: two cache rows with the same text
C19_Witness ==
    \E c \in cache : \E d \in cache : c.id # d.id /\ c.text = d.text

(***************************************************************************)
(* Properties of two concurrent upserts (SpecUpserts).                     *)
(***************************************************************************)
\* C20 as claimed: when two concurrent upsertFacts(chapterId, T, true) with
\* the same chapter and list have both completed, the chapter holds one
\* fact per distinct text of T and no other fact.
C20_ConcurrentUpsertsConverge ==
    (\A p \in Procs : Finished(p, "upsertFacts")) =>
        LET l == loc["w1"]
            stored == {f \in facts : f.ch = l.chapterId}
        IN /\ \A t \in Range(l.texts) :
                 Cardinality({f \in stored : f.text = t}) = 1
           /\ \A f \in stored : f.text \in Range(l.texts)

(***************************************************************************)
(* Further properties of one caller (Spec) and of interleaved callers      *)
(* (SpecConc).                                                             *)
(***************************************************************************)
\* the chapter holds one fact per distinct text of the list, and no other
OneFactPerText(chapterId, texts) ==
    LET stored == {f \in facts : f.ch = chapterId}
    IN /\ \A t \in Range(texts) :
             Cardinality({f \in stored : f.text = t}) = 1
       /\ \A f \in stored : f.text \in Range(texts)

\* C21 as claimed: an upsertFacts(chapterId, T, true) made again with the
\* same arguments after a failed attempt, and completing without failure,
\* leaves the chapter with one fact per distinct text of T and no other.
C21_RedriveConverges ==
    (/\ Finished("w1", "upsertFacts") /\ loc["w1"].withDelete
     /\ loc["w1"].previous = "error")
        => OneFactPerText(loc["w1"].chapterId, loc["w1"].texts)

\* C22 as claimed: searchFacts without a search topic returns all the
\* stored facts.
C22_NoTopicListsAllFacts ==
    (Finished("w1", "searchFacts") /\ Falsy(loc["w1"].texts))
        => {r.id : r \in Range(loc["w1"].page.facts)} = Ids(facts)

\* C23: in every state the text of each stored fact is the text of the
\* cache row the fact references.
C23_FactTextIsCacheText ==
    \A f \in facts : \E c \in cache : c.id = f.emb /\ c.text = f.text

\* C23 witness: a fact whose text an update has changed, while the other
\* caller is in the middle of a call
C23_Witness ==
    /\ pc["w1"] = "done" /\ loc["w1"].result = "ok"
    /\ loc["w1"].op \in {"updateFact", "upsertFacts"}
    /\ \E f \in facts : /\ f.id \in loc["w1"].updated
                         /\ f.text # loc["w1"].texts[1]
    /\ pc["w2"] \notin {"idle", "done"}

\* C24 as claimed: an addFacts that ends in an error has persisted no fact.
C24_FailedAddFactsStoresNothing ==
    (pc["w1"] = "done" /\ loc["w1"].op = "addFacts"
        /\ loc["w1"].result = "error")
        => loc["w1"].inserted = 0

(***************************************************************************)
(* Properties of the book processing (SpecBook).                           *)
(***************************************************************************)
Diagnostic(chapterId) == CHOOSE d \in diagnostics : d.chapter_id = chapterId

\* C25 as claimed: within one processChapter run, once the diagnostic of
\* the chapter has facts_extraction_status = SUCCESS with facts_count = the
\* number of facts stored, no later step of the run sets the status to
\* FAILED or resets facts_count to 0.
C25_ExtractionSuccessIsKept ==
    run.recorded =>
        /\ Diagnostic(run.chapterId).facts_extraction_status = "SUCCESS"
        /\ Diagnostic(run.chapterId).facts_count = run.stored

\* C26 as claimed: processChapter run for a chapter that has a diagnostic
\* row already, with every collaborator succeeding, returns true and
\* leaves the diagnostic of this run.
C26_SecondRunSucceeds ==
    (At("done") /\ run.existed /\ run.failures = {}) =>
        /\ run.returned = "true"
        /\ Diagnostic(run.chapterId).facts_extraction_status = "SUCCESS"
        /\ Diagnostic(run.chapterId).facts_count = run.stored

\* C27 as claimed: when a run of exampleUsage that called processChapter
\* for at least one chapter has finished and its status writes did not
\* fail, the status of the book is COMPLETED or ERROR, and ERROR exactly
\* when every processed chapter failed.
C27_BookStatusSettled ==
    (job.at = "done" /\ job.i >= 1 /\ ~job.statusWriteFailed) =>
        \A b \in books :
            /\ b.status \in {"COMPLETED", "ERROR"}
            /\ b.status = "ERROR" <=> job.successCount = 0

\* the facts the model extracted are facts of the chapter
ExtractedAndStored ==
    /\ run.factResult.success
    /\ run.factResult.facts # Undefined
    /\ run.stored > 0
    /\ Range(run.factResult.facts[1]) \subseteq ChapterTexts(run.chapterId)

\* C28 as claimed: processChapter never ends in an error; every failure of
\* a collaborator (book or chapter lookup, diagnostic write, content
\* extraction, fact extraction, addFacts, page-number update) makes it
\* return false; it returns true only when facts were extracted and stored.
C28_EveryFailureReturnsFalse ==
    At("done") =>
        /\ run.returned # "error"
        /\ (run.failures \ {"extractFactPageNumbers"} # {})
               => run.returned = "false"
        /\ run.returned = "true" => ExtractedAndStored

\* the collaborators that catch their own failures
Swallowing == {"extractFactPageNumbers", "updateFactPageNumbersForChapter"}

\* C28: processChapter never ends in an error; every failure of a
\* collaborator that rejects or reports failure (book or chapter lookup,
\* diagnostic write, content extraction, fact extraction, addFacts) makes
\* it return false; it returns true only when facts were extracted and
\* stored.  A failure inside the page-number extraction or the page-number
\* update stays inside them.
C28_RejectionsReturnFalse ==
    At("done") =>
        /\ run.returned # "error"
        /\ (run.failures \ Swallowing # {}) => run.returned = "false"
        /\ run.returned = "true" => ExtractedAndStored

\* addFacts has failed after the diagnostic was created, the catch block
\* has written the diagnostic and processChapter has returned false
C28_Witness ==
    /\ At("done") /\ run.returned = "false"
    /\ "memory.addFacts" \in run.failures
    /\ Diagnostic(run.chapterId).facts_extraction_status = "FAILED"

(***************************************************************************)
(* Properties of the functions backed by the language model (SpecLLM).     *)
(***************************************************************************)
\* C29 as claimed: expandQuery never ends in an error; when the expansion
\* request fails (with or without retry, after the attempts are used up)
\* it returns the original text unchanged.
C29_ExpandQueryNeverErrors ==
    (llm.op = "expandQuery" /\ llm.at = "done") =>
        /\ llm.result = "ok"
        /\ llm.response = Undefined => llm.value = llm.text

\* C30: extractFactsFromChapter never ends in an error; it asks the
\* service at most 3 times; success = true comes only with a non-empty
\* list of facts; when the attempts are used up or the list is empty the
\* result is success = false with an error message.
C30_ExtractFactsNeverErrors ==
    llm.op = "extractFactsFromChapter" =>
        /\ llm.calls <= ExtractFactsAttempts
        /\ llm.at = "done" =>
             /\ llm.result = "ok"
             /\ llm.out.success =>
                    (llm.out.facts # Undefined /\ Len(llm.out.facts[1]) > 0)
             /\ ~llm.out.success =>
                    (llm.out.error # Undefined /\ llm.out.error[1] # "")
             /\ (llm.response = Undefined \/ llm.response = Some(<<>>))
                    => ~llm.out.success

\* the third request has been rejected too
C30_Witness ==
    /\ llm.op = "extractFactsFromChapter" /\ llm.at = "done"
    /\ llm.calls = ExtractFactsAttempts /\ llm.response = Undefined
    /\ ~llm.out.success

====
